---- MODULE Spec2Model ----
(***************************************************************************)
(* Cookie Category Analyzer (src/app.py): the retry loop of                *)
(* get_cookie_details, the reconciliation rules and the record loop of     *)
(* process_dataframe, and the de-duplication / left merge of the main      *)
(* block, as one sequential state machine.                                 *)
(***************************************************************************)
EXTENDS Integers, Sequences, FiniteSets, TLC

(* ---------------------------- bounds ----------------------------------- *)
MaxRows == 2             \* rows of the uploaded sheet
MaxRetriesBound == 2     \* largest value of the "Max Retries per Cookie" control
MaxChunkBound == 2       \* largest value of the "Pause After # Cookies" control

(* ------------------------- program constants --------------------------- *)
PAUSE_DURATION == 10
RATE_LIMIT_SLEEP == 60
PACING_SLEEP == 1

(* ------------------------- value universes ----------------------------- *)
CookieNames == {"_ga", "sid"}
DomainCategories == {"Unknown", "Essential Cookies", "Error"}
GeminiCategories == {"Unknown", "Essential Cookies", "Targeting Cookies"}
GeminiJustifications == {"Keeps the session.", "Tracks visitors."}

\* str(e) of the two kinds of non-transport exception
PayloadFaultText == "Expecting value: line 1 column 1 (char 0)"
AttributeFaultText == "'list' object has no attribute 'get'"

(* ------------------------- python values ------------------------------- *)
None == [type |-> "NoneType", items |-> <<>>]
Dict(f) == [type |-> "dict", items |-> f]
List(s) == [type |-> "list", items |-> s]

\* `if api_details is not None:`
IsNotNone(v) == v.type # "NoneType"

\* `if api_details:`
Truthy(v) ==
  CASE v.type = "NoneType" -> FALSE
    [] v.type = "dict" -> DOMAIN v.items # {}
    [] v.type = "list" -> Len(v.items) > 0

\* dict.get(key, default)
Get(v, key, default) == IF key \in DOMAIN v.items THEN v.items[key] ELSE default

ClassificationResult(name, category, justification) ==
  Dict([k \in {"cookieName", "recommendedCategory", "justification"} |->
         CASE k = "cookieName" -> name
           [] k = "recommendedCategory" -> category
           [] k = "justification" -> justification])

\* the (category, justification) pairs the API answers with: every category, and
\* one category with two different justifications
Classifications ==
  { <<g, "Keeps the session.">> : g \in GeminiCategories }
    \cup { <<"Essential Cookies", j>> : j \in GeminiJustifications }

\* what json.loads of the first candidate's text can evaluate to
Payloads(name) ==
  { ClassificationResult(name, c[1], c[2]) : c \in Classifications }
    \cup { Dict([k \in {"cookieName"} |-> name]),
           Dict(<<>>),
           List(<<"x">>) }

\* line 139 with the category of an unclassified cookie
ErrorPlaceholderUnknown(name, retries) ==
  ClassificationResult(name, "Unknown",
                       "API call failed after " \o ToString(retries) \o " attempts.")

\* the loop falls through without line 139
ErrorPlaceholderMissing(name, retries) == None

\* line 139
ErrorPlaceholder(name, retries) ==
  ClassificationResult(name, "Error",
                       "API call failed after " \o ToString(retries) \o " attempts.")

(* -------------------------- table rows --------------------------------- *)
InputRow(name, dom) == ("Cookie Name" :> name) @@ ("Domain Category" :> dom)

ResultRow(name, dom, cat, just) ==
  ("Cookie Name" :> name) @@ ("Domain Category" :> dom)
    @@ ("Recommended Category" :> cat) @@ ("Justification" :> just)

NaN == "NaN"

\* no de-duplication
keep_all_rows(df) == df

\* DataFrame.drop_duplicates(subset=["Cookie Name"]): the first row of each name
RECURSIVE drop_duplicates(_)
drop_duplicates(df) ==
  IF df = <<>> THEN <<>>
  ELSE LET front == SubSeq(df, 1, Len(df) - 1)
           last == df[Len(df)]
       IN IF \E i \in 1..Len(front) : front[i]["Cookie Name"] = last["Cookie Name"]
          THEN drop_duplicates(front)
          ELSE Append(drop_duplicates(front), last)

\* the rows of `right` joined to one row of `left`, in the order of `right`
RECURSIVE MatchesOf(_, _)
MatchesOf(row, right) ==
  IF right = <<>> THEN <<>>
  ELSE LET rest == MatchesOf(row, Tail(right))
           r == Head(right)
       IN IF r["Cookie Name"] = row["Cookie Name"]
          THEN <<ResultRow(row["Cookie Name"], row["Domain Category"],
                           r["Recommended Category"], r["Justification"])>> \o rest
          ELSE rest

\* pd.merge(left, right, on="Cookie Name", how="left")
RECURSIVE merge_left(_, _)
merge_left(left, right) ==
  IF left = <<>> THEN <<>>
  ELSE LET row == Head(left)
           m == MatchesOf(row, right)
       IN (IF m = <<>>
           THEN <<ResultRow(row["Cookie Name"], row["Domain Category"], NaN, NaN)>>
           ELSE m) \o merge_left(Tail(left), right)

(* ---------------------- reconciliation rules --------------------------- *)
\* line 174 with the two categories exchanged
final_category_swapped(api, domain_category) ==
  LET gemini_category == Get(api, "recommendedCategory", "Unknown")
  IN IF gemini_category = domain_category THEN gemini_category
     ELSE IF gemini_category = "Unknown" THEN domain_category
     ELSE IF domain_category # "Unknown"
          THEN gemini_category \o "/" \o domain_category
          ELSE gemini_category

\* lines 159-175, as the code computes them: defaults, then overrides
final_category(api, domain_category) ==
  LET gemini_category == Get(api, "recommendedCategory", "Unknown")
  IN IF gemini_category = domain_category THEN gemini_category
     ELSE IF gemini_category = "Unknown" THEN domain_category
     ELSE IF domain_category # "Unknown"
          THEN domain_category \o "/" \o gemini_category
          ELSE gemini_category

\* line 172 missing: the model's justification stays when G is "Unknown"
final_justification_kept(api, domain_category) ==
  LET gemini_category == Get(api, "recommendedCategory", "Unknown")
      gemini_justification == Get(api, "justification", "")
  IN IF gemini_category = domain_category
     THEN (IF gemini_category = "Unknown" THEN "Need confirmation from Client" ELSE "N/A")
     ELSE IF gemini_category = "Unknown" THEN gemini_justification
     ELSE IF domain_category # "Unknown"
          THEN "Depending on the website's use case it can be classified as "
                 \o domain_category \o "/" \o gemini_category \o ". " \o gemini_justification
          ELSE gemini_justification

final_justification(api, domain_category) ==
  LET gemini_category == Get(api, "recommendedCategory", "Unknown")
      gemini_justification == Get(api, "justification", "")
  IN IF gemini_category = domain_category
     THEN (IF gemini_category = "Unknown" THEN "Need confirmation from Client" ELSE "N/A")
     ELSE IF gemini_category = "Unknown" THEN "N/A"
     ELSE IF domain_category # "Unknown"
          THEN "Depending on the website's use case it can be classified as "
                 \o domain_category \o "/" \o gemini_category \o ". " \o gemini_justification
          ELSE gemini_justification

\* lines 177-182
final_result(name, domain_category, api) ==
  ResultRow(name, domain_category,
            final_category(api, domain_category),
            final_justification(api, domain_category))

\* lines 188-189 with the two values exchanged
processing_error_swapped(name, domain_category, e) ==
  ResultRow(name, domain_category, e, "Processing Error")

\* lines 185-190
processing_error(name, domain_category, e) ==
  ResultRow(name, domain_category, "Processing Error", e)

(* ------------------------- retry loop helpers -------------------------- *)
\* range(retries + 1)
InRangeInclusive(attempt, retries) == attempt <= retries

\* `for attempt in range(retries)`: is there an iteration with this index
InRange(attempt, retries) == attempt < retries

\* 2 ** (attempt + 1)
BackoffSecondsNext(attempt) == 2 ^ (attempt + 1)

\* line 138
BackoffSeconds(attempt) == 2 ^ attempt

\* line 194 without its second condition
PauseDueEveryChunk(index, total, chunk) == index % chunk = 0

\* line 194
PauseDue(index, total, chunk) == index % chunk = 0 /\ index < total

(* ------------------------------ state ---------------------------------- *)
VARIABLES
  MAX_RETRIES,        \* slider, line 98
  CHUNK_SIZE_PAUSE,   \* slider, line 99
  input_df,           \* the uploaded sheet, line 210
  unique_cookies_df,  \* line 229 (cookie_records of process_dataframe)
  pc,                 \* position of the single thread of control
  index,              \* 1-based position of the record in hand (index + 1 of line 152)
  attempt,            \* loop variable of get_cookie_details
  api_details,        \* line 156
  exc,                \* str(e) of the exception in flight, "" when none
  results_list,       \* line 150
  output_df,          \* line 242
  trace,              \* history: pacing sleep, requests and retry sleeps of the record in hand
  handled,            \* history: one entry per record whose iteration body ended
  calls               \* history: get_cookie_details invocations per cookie name

vars == <<MAX_RETRIES, CHUNK_SIZE_PAUSE, input_df, unique_cookies_df, pc, index,
          attempt, api_details, exc, results_list, output_df, trace, handled, calls>>

config == <<MAX_RETRIES, CHUNK_SIZE_PAUSE, input_df, unique_cookies_df>>

\* line 155, as distinct from the retry sleeps of lines 136 and 138
PaceEv == [ev |-> "pace", secs |-> PACING_SLEEP, outcome |-> "-"]
SleepEv(secs) == [ev |-> "sleep", secs |-> secs, outcome |-> "-"]
PostEv(outcome) == [ev |-> "post", secs |-> 0, outcome |-> outcome]

Raised == [type |-> "raised", items |-> <<>>]

total_cookies == Len(unique_cookies_df)
cookie_name == unique_cookies_df[index]["Cookie Name"]
domain_category == unique_cookies_df[index]["Domain Category"]

RECURSIVE SheetsOf(_)
SheetsOf(n) ==
  IF n = 0 THEN {<<>>}
  ELSE LET shorter == SheetsOf(n - 1)
       IN shorter \cup
          { Append(s, InputRow(c, d)) :
              s \in {t \in shorter : Len(t) = n - 1}, c \in CookieNames, d \in DomainCategories }

Init ==
  /\ MAX_RETRIES \in 1..MaxRetriesBound
  /\ CHUNK_SIZE_PAUSE \in 1..MaxChunkBound
  /\ input_df = <<>>
  /\ unique_cookies_df = <<>>
  /\ pc = "upload"
  /\ index = 0
  /\ attempt = 0
  /\ api_details = None
  /\ exc = ""
  /\ results_list = <<>>
  /\ output_df = <<>>
  /\ trace = <<>>
  /\ handled = <<>>
  /\ calls = [c \in CookieNames |-> 0]

(* ------------------------- main block, upload -------------------------- *)
\* lines 204-212: the sheet is read; line 212 needs two columns, so it has a row.
\* Names are only compared and copied, so the first row's name is fixed: every
\* other sheet is one of these with the two names exchanged.
ReadExcel ==
  /\ pc = "upload"
  /\ \E df \in SheetsOf(MaxRows) :
       /\ Len(df) >= 1
       /\ df[1]["Cookie Name"] = "_ga"
       /\ input_df' = df
  /\ pc' = "ready"
  /\ UNCHANGED <<MAX_RETRIES, CHUNK_SIZE_PAUSE, unique_cookies_df, index, attempt,
                 api_details, exc, results_list, output_df, trace, handled, calls>>

\* lines 226-232 and 143-152: the button, de-duplication, entry of the record loop
StartAnalysis ==
  /\ pc = "ready"
  /\ unique_cookies_df' = drop_duplicates(input_df)
  /\ results_list' = <<>>
  /\ IF drop_duplicates(input_df) = <<>>
     THEN pc' = "returned" /\ index' = 0
     ELSE pc' = "pace" /\ index' = 1
  /\ UNCHANGED <<MAX_RETRIES, CHUNK_SIZE_PAUSE, input_df, attempt, api_details, exc,
                 output_df, trace, handled, calls>>

(* ------------------------ get_cookie_details --------------------------- *)
\* line 125 (loop head) and line 139 (loop exhausted)
EnterAttempt(a) ==
  /\ attempt' = a
  /\ IF InRange(a, MAX_RETRIES)
     THEN pc' = "post" /\ UNCHANGED api_details
     ELSE pc' = "reconcile" /\ api_details' = ErrorPlaceholder(cookie_name, MAX_RETRIES)

\* line 155 missing
PaceNoSleep ==
  /\ pc = "pace"
  /\ trace' = <<>>
  /\ calls' = [calls EXCEPT ![cookie_name] = @ + 1]
  /\ EnterAttempt(0)
  /\ UNCHANGED <<config, index, exc, results_list, output_df, handled>>

\* lines 155-156: pacing sleep, then the call
Pace ==
  /\ pc = "pace"
  /\ trace' = <<PaceEv>>
  /\ calls' = [calls EXCEPT ![cookie_name] = @ + 1]
  /\ EnterAttempt(0)
  /\ UNCHANGED <<config, index, exc, results_list, output_df, handled>>

\* lines 127-128, 133-135: the request fails with HTTP 429
PostRateLimited ==
  /\ pc = "post"
  /\ trace' = Append(trace, PostEv("429"))
  /\ pc' = "rate_limited"
  /\ UNCHANGED <<config, index, attempt, api_details, exc, results_list, output_df,
                 handled, calls>>

\* lines 127-129, 133-135: any other RequestException
PostTransportFailure ==
  /\ pc = "post"
  /\ trace' = Append(trace, PostEv("failure"))
  /\ pc' = "backoff"
  /\ UNCHANGED <<config, index, attempt, api_details, exc, results_list, output_df,
                 handled, calls>>

\* line 132 without the return: the loop goes on to the next attempt
PostNoCandidatesRetried ==
  /\ pc = "post"
  /\ trace' = Append(trace, PostEv("empty"))
  /\ EnterAttempt(attempt + 1)
  /\ UNCHANGED <<config, index, exc, results_list, output_df, handled, calls>>

\* lines 130, 132: no candidates, or an empty list of them
PostNoCandidates ==
  /\ pc = "post"
  /\ trace' = Append(trace, PostEv("empty"))
  /\ api_details' = None
  /\ pc' = "reconcile"
  /\ UNCHANGED <<config, index, attempt, exc, results_list, output_df, handled, calls>>

\* lines 130-131: the first candidate's text parses
PostCandidates ==
  /\ pc = "post"
  /\ trace' = Append(trace, PostEv("candidates"))
  /\ \E p \in Payloads(cookie_name) : api_details' = p
  /\ pc' = "reconcile"
  /\ UNCHANGED <<config, index, attempt, exc, results_list, output_df, handled, calls>>

\* line 133 as `except Exception`: the payload fault is retried like a failure
PostPayloadFaultRetried ==
  /\ pc = "post"
  /\ trace' = Append(trace, PostEv("fault"))
  /\ pc' = "backoff"
  /\ UNCHANGED <<config, index, attempt, api_details, exc, results_list, output_df,
                 handled, calls>>

\* line 131: indexing or json.loads raises; not a RequestException, so it leaves the call
PostPayloadFault ==
  /\ pc = "post"
  /\ trace' = Append(trace, PostEv("fault"))
  /\ exc' = PayloadFaultText
  /\ pc' = "except"
  /\ UNCHANGED <<config, index, attempt, api_details, results_list, output_df,
                 handled, calls>>

\* line 136 without the continue of line 137: line 138 sleeps as well
SleepRateLimitNoContinue ==
  /\ pc = "rate_limited"
  /\ trace' = Append(trace, SleepEv(RATE_LIMIT_SLEEP))
  /\ pc' = "backoff"
  /\ UNCHANGED <<config, index, attempt, api_details, exc, results_list, output_df,
                 handled, calls>>

\* lines 136-137
SleepRateLimit ==
  /\ pc = "rate_limited"
  /\ trace' = Append(trace, SleepEv(RATE_LIMIT_SLEEP))
  /\ EnterAttempt(attempt + 1)
  /\ UNCHANGED <<config, index, exc, results_list, output_df, handled, calls>>

\* line 138
SleepBackoff ==
  /\ pc = "backoff"
  /\ trace' = Append(trace, SleepEv(BackoffSeconds(attempt)))
  /\ EnterAttempt(attempt + 1)
  /\ UNCHANGED <<config, index, exc, results_list, output_df, handled, calls>>

(* -------------------------- process_dataframe -------------------------- *)
\* history entry: what the call gave, what became of the record, str(e), and
\* whether the chunk pause of lines 195-196 followed it
Handled(ret, disp, e) == [ret |-> ret, disp |-> disp, exc |-> e, paused |-> FALSE]

\* line 183 as results_list.insert(0, final_result)
ReconcileAppendFirst ==
  /\ pc = "reconcile"
  /\ Truthy(api_details) /\ api_details.type = "dict"
  /\ results_list' = <<final_result(cookie_name, domain_category, api_details)>>
                        \o results_list
  /\ handled' = Append(handled, Handled(api_details, "appended", ""))
  /\ pc' = "progress"
  /\ UNCHANGED <<config, index, attempt, api_details, exc, output_df, trace, calls>>

\* lines 158-183, api_details a non-empty dict
ReconcileAppend ==
  /\ pc = "reconcile"
  /\ Truthy(api_details) /\ api_details.type = "dict"
  /\ results_list' = Append(results_list,
                            final_result(cookie_name, domain_category, api_details))
  /\ handled' = Append(handled, Handled(api_details, "appended", ""))
  /\ pc' = "progress"
  /\ UNCHANGED <<config, index, attempt, api_details, exc, output_df, trace, calls>>

\* line 158, api_details falsy: nothing is appended
ReconcileSkip ==
  /\ pc = "reconcile"
  /\ ~Truthy(api_details)
  /\ handled' = Append(handled, Handled(api_details, "dropped", ""))
  /\ pc' = "progress"
  /\ UNCHANGED <<config, index, attempt, api_details, exc, results_list, output_df,
                 trace, calls>>

\* line 159, api_details truthy but without .get
ReconcileFault ==
  /\ pc = "reconcile"
  /\ Truthy(api_details) /\ api_details.type # "dict"
  /\ exc' = AttributeFaultText
  /\ pc' = "except"
  /\ UNCHANGED <<config, index, attempt, api_details, results_list, output_df, trace,
                 handled, calls>>

\* lines 184-190
ExceptAppend ==
  /\ pc = "except"
  /\ results_list' = Append(results_list,
                            processing_error(cookie_name, domain_category, exc))
  /\ handled' = Append(handled,
                       Handled(IF trace[Len(trace)].outcome = "fault"
                               THEN Raised ELSE api_details, "fault", exc))
  /\ exc' = ""
  /\ pc' = "progress"
  /\ UNCHANGED <<config, index, attempt, api_details, output_df, trace, calls>>

\* the loop stops one record early
AdvanceSkipsLast ==
  /\ attempt' = 0
  /\ trace' = <<>>
  /\ IF index < total_cookies - 1
     THEN pc' = "pace" /\ index' = index + 1
     ELSE pc' = "returned" /\ UNCHANGED index

\* end of the loop body: next record, or lines 198-199; the frame of the record's
\* call is gone, and the history of the record in hand starts afresh
Advance ==
  /\ attempt' = 0
  /\ trace' = <<>>
  /\ IF index < total_cookies
     THEN pc' = "pace" /\ index' = index + 1
     ELSE pc' = "returned" /\ UNCHANGED index

\* lines 192-194, no pause due
Progress ==
  /\ pc = "progress"
  /\ ~PauseDue(index, total_cookies, CHUNK_SIZE_PAUSE)
  /\ Advance
  /\ UNCHANGED <<config, api_details, exc, results_list, output_df, handled, calls>>

\* lines 192-196, pause due
ProgressPause ==
  /\ pc = "progress"
  /\ PauseDue(index, total_cookies, CHUNK_SIZE_PAUSE)
  /\ handled' = [handled EXCEPT ![Len(handled)].paused = TRUE]
  /\ Advance
  /\ UNCHANGED <<config, api_details, exc, results_list, output_df, calls>>

(* --------------------------- main block, merge ------------------------- *)
MergeFaultText ==
  "None of [Index(['Cookie Name', 'Recommended Category', 'Justification'], dtype='object')] are in the [columns]"

\* lines 239-250: the result table has the three columns
MergeResults ==
  /\ pc = "returned"
  /\ results_list # <<>>
  /\ output_df' = merge_left(input_df, results_list)
  /\ pc' = "done"
  /\ UNCHANGED <<config, index, attempt, api_details, exc, results_list, trace,
                 handled, calls>>

\* line 244 on a DataFrame built from an empty list (no columns), then lines 264-265
MergeFault ==
  /\ pc = "returned"
  /\ results_list = <<>>
  /\ exc' = MergeFaultText
  /\ pc' = "failed"
  /\ UNCHANGED <<config, index, attempt, api_details, results_list, output_df, trace,
                 handled, calls>>

Next ==
  \/ ReadExcel
  \/ StartAnalysis
  \/ Pace
  \/ PostRateLimited
  \/ PostTransportFailure
  \/ PostNoCandidates
  \/ PostCandidates
  \/ PostPayloadFault
  \/ SleepRateLimit
  \/ SleepBackoff
  \/ ReconcileAppend
  \/ ReconcileSkip
  \/ ReconcileFault
  \/ ExceptAppend
  \/ Progress
  \/ ProgressPause
  \/ MergeResults
  \/ MergeFault

Spec == Init /\ [][Next]_vars

\* the steps of process_dataframe and get_cookie_details: straight-line code of one
\* thread, whose requests and sleeps complete
LoopStep ==
  \/ Pace
  \/ PostRateLimited
  \/ PostTransportFailure
  \/ PostNoCandidates
  \/ PostCandidates
  \/ PostPayloadFault
  \/ SleepRateLimit
  \/ SleepBackoff
  \/ ReconcileAppend
  \/ ReconcileSkip
  \/ ReconcileFault
  \/ ExceptAppend
  \/ Progress
  \/ ProgressPause

FairSpec == Init /\ [][Next]_vars /\ WF_vars(LoopStep)

(* ======================= properties of the code ======================== *)
PostIdx == {i \in 1..Len(trace) : trace[i].ev = "post"}
NumPosts == Cardinality(PostIdx)
AllPostsFailed == \A i \in PostIdx : trace[i].outcome \in {"429", "failure"}
AllPostsRateLimited == \A i \in PostIdx : trace[i].outcome = "429"
Returned == pc \in {"returned", "done", "failed"}
EntriesFor(name) ==
  {k \in 1..Len(results_list) : results_list[k]["Cookie Name"] = name}
UniqueName(i) == unique_cookies_df[i]["Cookie Name"]

\* C1: one invocation of get_cookie_details sends at most `retries` requests,
\* whatever the outcomes of the requests are.
C1_RetryBound == NumPosts <= MAX_RETRIES

C1_Witness ==
  /\ pc = "reconcile"
  /\ MAX_RETRIES >= 2
  /\ NumPosts = MAX_RETRIES
  /\ \E i \in PostIdx : trace[i].outcome = "429"
  /\ trace[Len(trace)].outcome = "candidates"

\* C2: when all R attempts fail (429 or other transport failure, in any mix) the
\* call returns, without raising, the result {cookieName: the requested name,
\* recommendedCategory: "Error", justification naming R}; and it returns that
\* result in no other case.
IsExhaustionResult(v) ==
  /\ v.type = "dict"
  /\ DOMAIN v.items = {"cookieName", "recommendedCategory", "justification"}
  /\ v.items["cookieName"] = cookie_name
  /\ v.items["recommendedCategory"] = "Error"
  /\ v.items["justification"]
       = "API call failed after " \o ToString(MAX_RETRIES) \o " attempts."

C2_ExhaustionReturnsError ==
  /\ (NumPosts = MAX_RETRIES /\ AllPostsFailed) => pc # "except"
  /\ pc = "reconcile" =>
       ((NumPosts = MAX_RETRIES /\ AllPostsFailed) <=> IsExhaustionResult(api_details))
  /\ pc = "progress" =>
       ((NumPosts = MAX_RETRIES /\ AllPostsFailed)
          <=> (handled[Len(handled)].ret.type = "dict"
                 /\ IsExhaustionResult(handled[Len(handled)].ret)))

C2_Witness ==
  /\ pc = "reconcile"
  /\ MAX_RETRIES >= 2
  /\ IsExhaustionResult(api_details)
  /\ \E i \in PostIdx : trace[i].outcome = "429"
  /\ \E i \in PostIdx : trace[i].outcome = "failure"

\* C3: a record appended by the normal path carries the rule table's outcome for
\* G (recommendedCategory), J (justification) and D (domain category):
\*   G = D = "Unknown" -> (G, "Need confirmation from Client"); G = D otherwise ->
\*   (G, "N/A"); G # D, G = "Unknown" -> (D, "N/A"); G # D, D = "Unknown" -> (G, J);
\*   otherwise ("D/G", the dual-use sentence naming D/G, followed by J).
RuleTable(G, J, D) ==
  CASE G = D /\ G = "Unknown" -> <<G, "Need confirmation from Client">>
    [] G = D /\ G # "Unknown" -> <<G, "N/A">>
    [] G # D /\ G = "Unknown" -> <<D, "N/A">>
    [] G # D /\ G # "Unknown" /\ D = "Unknown" -> <<G, J>>
    [] G # D /\ G # "Unknown" /\ D # "Unknown" ->
         << D \o "/" \o G,
            "Depending on the website's use case it can be classified as "
              \o D \o "/" \o G \o ". " \o J >>

ResultIndex(i) == Cardinality({k \in 1..i : handled[k].disp # "dropped"})

C3_RuleTable ==
  \A i \in 1..Len(handled) :
    (handled[i].ret.type = "dict" /\ DOMAIN handled[i].ret.items # {}) =>
      LET ret == handled[i].ret
          G == IF "recommendedCategory" \in DOMAIN ret.items
               THEN ret.items["recommendedCategory"] ELSE "Unknown"
          J == IF "justification" \in DOMAIN ret.items
               THEN ret.items["justification"] ELSE ""
          D == unique_cookies_df[i]["Domain Category"]
      IN /\ ResultIndex(i) \in 1..Len(results_list)
         /\ results_list[ResultIndex(i)]["Cookie Name"] = UniqueName(i)
         /\ results_list[ResultIndex(i)]["Domain Category"] = D
         /\ results_list[ResultIndex(i)]["Recommended Category"] = RuleTable(G, J, D)[1]
         /\ results_list[ResultIndex(i)]["Justification"] = RuleTable(G, J, D)[2]

C3_Witness ==
  /\ Returned
  /\ \E i \in 1..Len(handled) :
       /\ handled[i].ret.type = "dict"
       /\ DOMAIN handled[i].ret.items # {}
       /\ "recommendedCategory" \in DOMAIN handled[i].ret.items
       /\ handled[i].ret.items["recommendedCategory"] = "Targeting Cookies"
       /\ unique_cookies_df[i]["Domain Category"] = "Essential Cookies"
       /\ results_list[ResultIndex(i)]["Recommended Category"]
            = "Essential Cookies/Targeting Cookies"

\* C4: the output table has as many rows as the input table, in the input's row
\* order, for every input and every per-cookie outcome.
C4_RowCountAndOrder ==
  pc \in {"done", "failed"} =>
    /\ pc = "done"
    /\ Len(output_df) = Len(input_df)
    /\ \A i \in 1..Len(input_df) :
         /\ output_df[i]["Cookie Name"] = input_df[i]["Cookie Name"]
         /\ output_df[i]["Domain Category"] = input_df[i]["Domain Category"]

\* C5: a name that occurs n >= 1 times in the input gets exactly one
\* get_cookie_details invocation in a run, and all its output rows carry the same
\* Recommended Category and Justification.
C5_OneCallPerName ==
  /\ \A c \in CookieNames : calls[c] <= 1
  /\ Returned =>
       \A c \in CookieNames :
         calls[c] = (IF \E i \in 1..Len(input_df) : input_df[i]["Cookie Name"] = c
                     THEN 1 ELSE 0)
  /\ pc = "done" =>
       \A i, j \in 1..Len(output_df) :
         output_df[i]["Cookie Name"] = output_df[j]["Cookie Name"] =>
           /\ output_df[i]["Recommended Category"] = output_df[j]["Recommended Category"]
           /\ output_df[i]["Justification"] = output_df[j]["Justification"]

C5_Witness ==
  /\ pc = "done"
  /\ \E i, j \in 1..Len(output_df) :
       /\ i < j
       /\ input_df[i]["Cookie Name"] = input_df[j]["Cookie Name"]
       /\ input_df[i]["Domain Category"] # input_df[j]["Domain Category"]
       /\ output_df[j]["Recommended Category"] # NaN
       /\ calls[input_df[i]["Cookie Name"]] = 1

\* C6 (as stated): after process_dataframe returns, the result list has as many
\* entries as there are unique records and every unique name occurs exactly once.
C6_OneRecordPerName ==
  Returned =>
    /\ Len(results_list) = Len(unique_cookies_df)
    /\ \A i \in 1..Len(unique_cookies_df) : Cardinality(EntriesFor(UniqueName(i))) = 1

\* the call gave a falsy value: null (no candidates) or an empty parsed payload
GaveNothing(ret) ==
  \/ ret.type = "NoneType"
  \/ ret.type = "dict" /\ DOMAIN ret.items = {}

\* C6 (amended): after process_dataframe returns, every unique name occurs in the
\* result list exactly once, except the names whose call returned a falsy value
\* (null, or an empty parsed payload), which do not occur; the number of entries
\* is the number of unique records less the number of those.
C6_OneRecordUnlessNothing ==
  Returned =>
    /\ Len(handled) = Len(unique_cookies_df)
    /\ \A i \in 1..Len(unique_cookies_df) :
         Cardinality(EntriesFor(UniqueName(i)))
           = (IF GaveNothing(handled[i].ret) THEN 0 ELSE 1)
    /\ Len(results_list)
         = Len(unique_cookies_df)
             - Cardinality({i \in 1..Len(unique_cookies_df) : GaveNothing(handled[i].ret)})

C6_Witness ==
  /\ pc = "returned"
  /\ Len(unique_cookies_df) = 2
  /\ Len(results_list) = 1
  /\ handled[1].ret = Dict(<<>>)
  /\ handled[2].ret.type = "dict" /\ ~GaveNothing(handled[2].ret)

\* C7: a response without candidates ends the call at once with null (no further
\* request, no retry sleep); no record of any kind is appended for that cookie,
\* and the records after it are still processed.
C7_NoCandidatesDropsRecord ==
  /\ \A i \in 1..Len(trace) : trace[i].outcome = "empty" => i = Len(trace)
  /\ (pc = "reconcile" /\ trace[Len(trace)].outcome = "empty") =>
       api_details.type = "NoneType"
  /\ (pc = "progress" /\ trace[Len(trace)].outcome = "empty") =>
       handled[Len(handled)].ret.type = "NoneType"
  /\ \A i \in 1..Len(handled) :
       handled[i].ret.type = "NoneType" => EntriesFor(UniqueName(i)) = {}
  /\ Returned => Len(handled) = Len(unique_cookies_df)

C7_Witness ==
  /\ pc = "returned"
  /\ MAX_RETRIES >= 2
  /\ Len(handled) = 2
  /\ handled[1].ret.type = "NoneType"
  /\ handled[2].disp = "appended"
  /\ EntriesFor(UniqueName(1)) = {}

\* C8: an exception raised while record i is processed (in the call or in the
\* reconciliation) leaves exactly one record for i, with Recommended Category
\* "Processing Error" and the exception's description as Justification, and the
\* records after i are still processed.
C8_FaultContained ==
  /\ \A i \in 1..Len(handled) :
       handled[i].ret.type \in {"raised", "list"} =>
         /\ Cardinality(EntriesFor(UniqueName(i))) = 1
         /\ \A k \in EntriesFor(UniqueName(i)) :
              /\ results_list[k]["Recommended Category"] = "Processing Error"
              /\ results_list[k]["Justification"]
                   = (IF handled[i].ret.type = "raised"
                      THEN PayloadFaultText ELSE AttributeFaultText)
              /\ results_list[k]["Domain Category"]
                   = unique_cookies_df[i]["Domain Category"]
  /\ pc # "except" => Len(handled) \in {index - 1, index}
  /\ Returned => Len(handled) = Len(unique_cookies_df)

C8_Witness ==
  /\ pc = "returned"
  /\ Len(handled) = 2
  /\ handled[1].ret.type = "raised"
  /\ handled[2].ret.type = "list"
  /\ Len(results_list) = 2

\* C9: after a 429 the call sleeps 60 seconds and nothing else before the next
\* request; the attempt is spent: when every response is a 429, exactly R requests
\* are sent and the same "Error" result is returned as for any other exhaustion.
C9_RateLimit ==
  /\ \A i \in 1..Len(trace) :
       trace[i].outcome = "429" =>
         /\ i < Len(trace) => (trace[i + 1].ev = "sleep" /\ trace[i + 1].secs = 60)
         /\ i + 2 <= Len(trace) => trace[i + 2].ev = "post"
  /\ (pc = "reconcile" /\ NumPosts >= 1 /\ AllPostsRateLimited) =>
       /\ NumPosts = MAX_RETRIES
       /\ api_details
            = ClassificationResult(cookie_name, "Error",
                "API call failed after " \o ToString(NumPosts) \o " attempts.")

C9_Witness ==
  /\ pc = "reconcile"
  /\ MAX_RETRIES >= 2
  /\ NumPosts = MAX_RETRIES
  /\ AllPostsRateLimited
  /\ trace[Len(trace)].secs = 60

\* number of requests of the invocation sent before position i of the trace
PostsBefore(i) == Cardinality({k \in PostIdx : k < i})
FailuresUpTo(i) == Cardinality({k \in PostIdx : k <= i /\ trace[k].outcome = "failure"})

\* C10 (as stated): the k-th failure that is not a 429 sleeps 2^(k-1) seconds,
\* however many 429 failures came before it.
C10_BackoffSkipsRateLimits ==
  \A i \in 1..Len(trace) :
    (trace[i].outcome = "failure" /\ i < Len(trace)) =>
      (trace[i + 1].ev = "sleep" /\ trace[i + 1].secs = 2 ^ (FailuresUpTo(i) - 1))

\* C10 (amended): a failure that is not a 429 sleeps 2^a seconds, a being the
\* number of earlier attempts of the invocation, 429 failures included; the sleep
\* is 1 second only when the failure is that of the first attempt.
C10_BackoffByAttemptIndex ==
  \A i \in 1..Len(trace) :
    (trace[i].outcome = "failure" /\ i < Len(trace)) =>
      (trace[i + 1].ev = "sleep" /\ trace[i + 1].secs = 2 ^ PostsBefore(i))

C10_Witness ==
  /\ MAX_RETRIES >= 2
  /\ Len(trace) >= 5
  /\ trace[2].outcome = "429"
  /\ trace[4].outcome = "failure"
  /\ trace[5].secs = 2

\* position of a cookie name among the unique records (0 when absent)
PosOf(name) ==
  IF \E i \in 1..Len(unique_cookies_df) : UniqueName(i) = name
  THEN CHOOSE i \in 1..Len(unique_cookies_df) : UniqueName(i) = name
  ELSE 0

InCall == pc \in {"post", "rate_limited", "backoff", "reconcile", "except"}

\* C11: records are processed one at a time in input order: while record i is in
\* the call or being reconciled, exactly the records before i have been handled;
\* the result list is, in order, a subsequence of the handled records with at most
\* one entry per record; and a step only ever appends one entry to it.
C11_OrderState ==
  /\ (pc = "pace" \/ InCall) => Len(handled) = index - 1
  /\ pc = "progress" => Len(handled) = index
  /\ \A k \in 1..Len(results_list) :
       PosOf(results_list[k]["Cookie Name"]) \in 1..Len(handled)
  /\ \A k, l \in 1..Len(results_list) :
       k < l => PosOf(results_list[k]["Cookie Name"]) < PosOf(results_list[l]["Cookie Name"])
  /\ \A i \in 1..Len(handled) :
       unique_cookies_df[i] = input_df[CHOOSE r \in 1..Len(input_df) :
                                  /\ input_df[r]["Cookie Name"] = UniqueName(i)
                                  /\ \A q \in 1..(r - 1) :
                                       input_df[q]["Cookie Name"] # UniqueName(i)]

C11_OrderStep ==
  /\ index' \in {index, index + 1}
  /\ Len(handled') \in {Len(handled), Len(handled) + 1}
  /\ Len(results_list') \in {Len(results_list), Len(results_list) + 1}
  /\ SubSeq(results_list', 1, Len(results_list)) = results_list

C11_InOrderAppendOnly == [](C11_OrderState) /\ [][C11_OrderStep]_vars

C11_Witness ==
  /\ pc = "post"
  /\ index = 2
  /\ Len(results_list) = 1
  /\ handled[1].disp = "fault"
  /\ Len(trace) >= 3

\* the pause decision of lines 194-196 has been taken for record i
PauseDecided(i) == ~(i = Len(handled) /\ pc = "progress")

\* C12: the chunk pause follows the i-th processed record, whatever became of the
\* record, exactly when i is a multiple of CHUNK_SIZE_PAUSE and further records
\* remain; none follows the last record.
C12_ChunkPause ==
  \A i \in 1..Len(handled) :
    PauseDecided(i) =>
      (handled[i].paused
         <=> (i % CHUNK_SIZE_PAUSE = 0 /\ i < Len(unique_cookies_df)))

C12_Witness ==
  /\ pc = "returned"
  /\ Len(handled) = 2
  /\ CHUNK_SIZE_PAUSE = 1
  /\ handled[1].disp = "dropped"
  /\ handled[1].paused
  /\ ~handled[2].paused

\* C13: once process_dataframe has started it returns, given that every request
\* and every sleep completes; and when it returns every unique record has been
\* consumed exactly once (one call, one handling), whatever the outcomes were.
C13_Terminates ==
  /\ [](pc = "returned" =>
          /\ index = Len(unique_cookies_df)
          /\ Len(handled) = Len(unique_cookies_df)
          /\ \A i \in 1..Len(unique_cookies_df) : calls[UniqueName(i)] = 1)
  /\ (pc = "pace" /\ index = 1) ~> (pc = "returned")

C13_Witness ==
  /\ pc = "returned"
  /\ Len(handled) = 2
  /\ handled[1].ret.type = "dict"
  /\ "recommendedCategory" \in DOMAIN handled[1].ret.items
  /\ handled[1].ret.items["recommendedCategory"] = "Error"
  /\ handled[2].ret.type = "raised"
  /\ calls[UniqueName(1)] = 1 /\ calls[UniqueName(2)] = 1

\* record i went through the rules of lines 159-175
Reconciled(i) == handled[i].ret.type = "dict" /\ DOMAIN handled[i].ret.items # {}
GOf(i) ==
  IF "recommendedCategory" \in DOMAIN handled[i].ret.items
  THEN handled[i].ret.items["recommendedCategory"] ELSE "Unknown"
JOf(i) ==
  IF "justification" \in DOMAIN handled[i].ret.items
  THEN handled[i].ret.items["justification"] ELSE ""
DOf(i) == unique_cookies_df[i]["Domain Category"]
CatOf(i) == results_list[ResultIndex(i)]["Recommended Category"]
JustOf(i) == results_list[ResultIndex(i)]["Justification"]

\* C14 (as stated): two classifications with the same G, reconciled against the
\* same D, give the same final category and the same final justification.
C14_FunctionOfGD ==
  \A i, j \in 1..Len(handled) :
    (Reconciled(i) /\ Reconciled(j) /\ GOf(i) = GOf(j) /\ DOf(i) = DOf(j)) =>
      (CatOf(i) = CatOf(j) /\ JustOf(i) = JustOf(j))

\* C14 (amended): the final category is a function of (G, D) alone; the final
\* justification is a function of (G, D) alone when G = D or G = "Unknown", and of
\* (G, J, D) otherwise: the same G and the same J against the same D give the same
\* pair.
C14_FunctionOfGJD ==
  \A i, j \in 1..Len(handled) :
    (Reconciled(i) /\ Reconciled(j) /\ GOf(i) = GOf(j) /\ DOf(i) = DOf(j)) =>
      /\ CatOf(i) = CatOf(j)
      /\ (JOf(i) = JOf(j) \/ GOf(i) = DOf(i) \/ GOf(i) = "Unknown") =>
           JustOf(i) = JustOf(j)

C14_Witness ==
  /\ pc = "returned"
  /\ Len(handled) = 2
  /\ Reconciled(1) /\ Reconciled(2)
  /\ GOf(1) = "Unknown" /\ GOf(2) = "Unknown"
  /\ DOf(1) = "Essential Cookies" /\ DOf(2) = "Essential Cookies"
  /\ JOf(1) # JOf(2)
  /\ JustOf(1) = "N/A" /\ JustOf(2) = "N/A"

\* C15 (as stated): every request, first attempt or retry, is preceded since the
\* previous request by the pacing delay of line 155.
C15_PaceBeforeEveryRequest ==
  \A i \in PostIdx :
    \E k \in 1..(i - 1) :
      /\ trace[k].ev = "pace"
      /\ \A q \in PostIdx : ~(k < q /\ q < i)

\* C15 (amended): the 1-second pacing delay is performed once per
\* get_cookie_details call, immediately before the call's first request; a retry
\* request is preceded since the previous request by that failure's retry sleep
\* (60 s or 2^attempt s) and by no pacing delay.
C15_PaceBeforeFirstRequest ==
  /\ (InCall \/ pc = "progress") =>
       (Len(trace) >= 1 /\ trace[1].ev = "pace" /\ trace[1].secs = 1)
  /\ \A i \in 2..Len(trace) : trace[i].ev # "pace"
  /\ \A i \in PostIdx :
       \/ i = 2
       \/ i > 3 /\ trace[i - 1].ev = "sleep" /\ trace[i - 2].ev = "post"

C15_Witness ==
  /\ pc = "reconcile"
  /\ Len(trace) = 4
  /\ NumPosts = 2
  /\ trace[1].ev = "pace"
  /\ trace[3].ev = "sleep"
  /\ trace[4].outcome = "candidates"

\* C16: a retry sleep is always followed by another request of the same call:
\* when the call has ended, the last thing it did was not a sleep.
C16_NoSleepAfterLastAttempt ==
  (pc \in {"reconcile", "except", "progress"} /\ Len(trace) >= 1) =>
    trace[Len(trace)].ev # "sleep"

\* C17: a unique record is missing from the result list exactly when the API
\* returned no candidates; every parsed payload, an empty or field-less one
\* included, leaves exactly one record.
C17_DroppedOnlyWithoutCandidates ==
  \A i \in 1..Len(handled) :
    /\ (EntriesFor(UniqueName(i)) = {}) <=> (handled[i].ret.type = "NoneType")
    /\ handled[i].ret.type # "NoneType" => Cardinality(EntriesFor(UniqueName(i))) = 1

\* C18: only transport failures are retried: a request that was followed by
\* another one failed with a 429 or another RequestException; a payload that cannot
\* be extracted or parsed ends the call on that attempt with the exception, the
\* cookie is recorded as "Processing Error", and no further request is sent for it.
C18_OnlyTransportRetried ==
  /\ \A i \in PostIdx :
       (\E q \in PostIdx : q > i) => trace[i].outcome \in {"429", "failure"}
  /\ \A i \in 1..Len(trace) : trace[i].outcome = "fault" => i = Len(trace)
  /\ (Len(trace) >= 1 /\ trace[Len(trace)].outcome = "fault") =>
       /\ pc \in {"except", "progress"}
       /\ pc = "except" => exc = PayloadFaultText
       /\ pc = "progress" =>
            /\ handled[Len(handled)].ret.type = "raised"
            /\ Len(results_list) >= 1
            /\ results_list[Len(results_list)]["Cookie Name"] = cookie_name
            /\ results_list[Len(results_list)]["Recommended Category"] = "Processing Error"
            /\ results_list[Len(results_list)]["Justification"] = PayloadFaultText

C18_Witness ==
  /\ pc = "progress"
  /\ MAX_RETRIES >= 2
  /\ NumPosts = 1
  /\ trace[Len(trace)].outcome = "fault"
  /\ results_list[Len(results_list)]["Recommended Category"] = "Processing Error"

\* the category the rule table gives for G = "Error"
ExhaustedCategory(D) == IF D \in {"Error", "Unknown"} THEN "Error" ELSE D \o "/Error"

\* C19: a cookie whose retries are all exhausted leaves exactly one record, made
\* by the rule table with G = "Error": its category is "Error" when D is "Error"
\* or "Unknown" and "D/Error" otherwise; it is neither dropped nor recorded as
\* "Processing Error".
C19_ExhaustedIsReconciled ==
  /\ (pc = "progress" /\ NumPosts = MAX_RETRIES /\ AllPostsFailed) =>
       /\ handled[Len(handled)].disp = "appended"
       /\ Cardinality(EntriesFor(cookie_name)) = 1
       /\ results_list[Len(results_list)]["Cookie Name"] = cookie_name
       /\ results_list[Len(results_list)]["Recommended Category"]
            = ExhaustedCategory(domain_category)
  /\ \A i \in 1..Len(handled) :
       (Reconciled(i) /\ GOf(i) = "Error") =>
         /\ Cardinality(EntriesFor(UniqueName(i))) = 1
         /\ CatOf(i) = ExhaustedCategory(DOf(i))

C19_Witness ==
  /\ pc = "returned"
  /\ Len(handled) = 2
  /\ Reconciled(1) /\ Reconciled(2)
  /\ GOf(1) = "Error" /\ DOf(1) = "Essential Cookies"
  /\ CatOf(1) = "Essential Cookies/Error"
  /\ GOf(2) = "Error" /\ DOf(2) = "Error"
  /\ CatOf(2) = "Error"
====
